---------------------------- MODULE Spec2Model ----------------------------
(***************************************************************************)
(* Model of three adapters of terraform-provider-azurerm:                  *)
(*   - the App Service plan SKU classifier (helpers/service_plan.go),      *)
(*   - the Service Bus subscription data source read,                      *)
(*   - the Purview account resource create/update, read and delete.        *)
(*                                                                         *)
(* A Go string is a sequence of runes; a rune is a one-character TLA+      *)
(* string ("P", "1", "/"), except U+017F (LATIN SMALL LETTER LONG S) and   *)
(* U+212A (KELVIN SIGN), which are written by their code point.  A Go      *)
(* *string is a sequence of length 0 (nil) or 1 (pointer to the string).   *)
(***************************************************************************)
EXTENDS Integers, Sequences, FiniteSets, TLC

VARIABLES
    skuInput,       \* the plan code handed to the classifier
    planType,       \* result of PlanTypeFromSku, or NotCalled
    checked,        \* the PlanIs* predicates PlanTypeFromSku evaluated, in order
    zoneBalancing,  \* <<result of PlanSupportsZoneBalancing>>, <<>> before the call
    scaleOut,       \* <<result of PlanSupportsScaleOut>>, <<>> before the call
    fivePointOh,    \* features.FivePointOh()
    sbConfig,       \* the data source's configuration, read with d.Get
    sbData,         \* the data source's ResourceData: the ID and the fields set
    sbGetCalls,     \* the IDs handed to SubscriptionsClient.Get, in order
    sbResult,       \* how dataSourceServiceBusSubscriptionRead returned
    pvConfig,       \* the Purview account's configuration, read with d.Get
    pvData,         \* the Purview account's ResourceData: the ID and the fields set
    pvIdOrigin,     \* who stored the current ID: "none", "create" or "import"
    pvOp,           \* the handler that ran last
    pvCalls,        \* the AccountsClient calls of that handler, in order
    pvParsed,       \* what parse.AccountID returned to that handler, or <<>>
    pvResult,       \* how that handler returned
    spiSite,        \* what WebAppsClient.Get or GetSlot answers
    spiPlan,        \* what ServicePlansClient.Get answers
    spiOp,          \* the function that was called, "pending" before the call
    spiCalls,       \* the client calls of that function, in order
    spiOut,         \* <<what the function returned>>, <<>> when it has not returned
    spiPanic        \* the function ended in a nil pointer dereference

skuVars == <<skuInput, planType, checked, zoneBalancing, scaleOut>>

sbVars == <<fivePointOh, sbConfig, sbData, sbGetCalls, sbResult>>

pvVars == <<pvConfig, pvData, pvIdOrigin, pvOp, pvCalls, pvParsed, pvResult>>

spiVars == <<spiSite, spiPlan, spiOp, spiCalls, spiOut, spiPanic>>

vars == <<skuVars, sbVars, pvVars, spiVars>>

NotCalled == "not_called"

-----------------------------------------------------------------------------
(* Go strings package                                                      *)

UpperLetters ==
    <<"A", "B", "C", "D", "E", "F", "G", "H", "I", "J", "K", "L", "M",
      "N", "O", "P", "Q", "R", "S", "T", "U", "V", "W", "X", "Y", "Z">>

LowerLetters ==
    <<"a", "b", "c", "d", "e", "f", "g", "h", "i", "j", "k", "l", "m",
      "n", "o", "p", "q", "r", "s", "t", "u", "v", "w", "x", "y", "z">>

LongS == "U+017F"

KelvinSign == "U+212A"

\* unicode.ToLower and unicode.ToUpper on the ASCII letters
UpperSet == {UpperLetters[i] : i \in 1..26}

LowerSet == {LowerLetters[i] : i \in 1..26}

AsciiToLower == [c \in UpperSet |-> LowerLetters[CHOOSE i \in 1..26 : UpperLetters[i] = c]]

AsciiToUpper == [c \in LowerSet |-> UpperLetters[CHOOSE i \in 1..26 : LowerLetters[i] = c]]

\* unicode.ToLower on one rune
ToLowerRune(c) ==
    IF c \in UpperSet THEN AsciiToLower[c]
    ELSE IF c = KelvinSign THEN "k"
    ELSE c

\* unicode.ToUpper on one rune
ToUpperRune(c) ==
    IF c \in LowerSet THEN AsciiToUpper[c]
    ELSE IF c = LongS THEN "S"
    ELSE c

\* the representative of a rune's simple case-folding orbit
\* ({"K", "k", U+212A} and {"S", "s", U+017F} have three members)
FoldRune(c) ==
    IF c = LongS THEN "s"
    ELSE ToLowerRune(c)

ToLower(s) == [i \in 1..Len(s) |-> ToLowerRune(s[i])]

ToUpper(s) == [i \in 1..Len(s) |-> ToUpperRune(s[i])]

EqualFold(s, t) ==
    /\ Len(s) = Len(t)
    /\ \A i \in 1..Len(s) : FoldRune(s[i]) = FoldRune(t[i])

HasPrefix(s, prefix) ==
    /\ Len(s) >= Len(prefix)
    /\ SubSeq(s, 1, Len(prefix)) = prefix

-----------------------------------------------------------------------------
(* Resource identifier codec: a resource ID type is a sequence of          *)
(* segments, each a fixed keyword or a named value.                        *)

Static(word) == [kind |-> "static", word |-> word, name |-> "-"]

UserSpecified(name) == [kind |-> "user", word |-> <<>>, name |-> name]

\* the input cut at every "/" (strings.Split): the segments of s from its
\* rune number start on
RECURSIVE SplitFrom(_, _)
SplitFrom(s, start) ==
    LET cuts == {i \in start..Len(s) : s[i] = "/"}
    IN  IF cuts = {}
        THEN <<SubSeq(s, start, Len(s))>>
        ELSE LET k == CHOOSE i \in cuts : \A j \in cuts : i <= j
             IN  <<SubSeq(s, start, k - 1)>> \o SplitFrom(s, k + 1)

Split(s) == SplitFrom(s, 1)

ValueNames(shape) == {shape[i].name : i \in {j \in 1..Len(shape) : shape[j].kind = "user"}}

\* Parse: the path must be "/" followed by one segment per segment of the
\* type; a keyword must match its literal case-insensitively and a value
\* must not be empty.  A failure carries no identifier at all.
ParseId_keepsEmptyValues(shape, input) ==
    LET segs == Split(input)
    IN  IF \/ Len(segs) # Len(shape) + 1
           \/ segs[1] # <<>>
           \/ \E i \in 1..Len(shape) :
                shape[i].kind = "static" /\ ~EqualFold(segs[i + 1], shape[i].word)
        THEN [ok |-> FALSE, id |-> <<>>]
        ELSE [ok |-> TRUE,
              id |-> [n \in ValueNames(shape) |->
                        segs[1 + CHOOSE i \in 1..Len(shape) : shape[i].name = n]]]

ParseId(shape, input) ==
    LET segs == Split(input)
    IN  IF \/ Len(segs) # Len(shape) + 1
           \/ segs[1] # <<>>
           \/ \E i \in 1..Len(shape) :
                \/ shape[i].kind = "static" /\ ~EqualFold(segs[i + 1], shape[i].word)
                \/ shape[i].kind = "user" /\ segs[i + 1] = <<>>
        THEN [ok |-> FALSE, id |-> <<>>]
        ELSE [ok |-> TRUE,
              id |-> [n \in ValueNames(shape) |->
                        segs[1 + CHOOSE i \in 1..Len(shape) : shape[i].name = n]]]

\* Format: "/" and the keyword literal or the value, segment by segment
RECURSIVE FormatFrom(_, _, _)
FormatFrom(shape, id, i) ==
    IF i > Len(shape) THEN <<>>
    ELSE <<"/">> \o (IF shape[i].kind = "static" THEN shape[i].word ELSE id[shape[i].name])
             \o FormatFrom(shape, id, i + 1)

FormatId(shape, id) == FormatFrom(shape, id, 1)

kwSubscriptions == <<"s", "u", "b", "s", "c", "r", "i", "p", "t", "i", "o", "n", "s">>

kwResourceGroups == <<"r", "e", "s", "o", "u", "r", "c", "e", "G", "r", "o", "u", "p", "s">>

kwProviders == <<"p", "r", "o", "v", "i", "d", "e", "r", "s">>

kwMicrosoftServiceBus ==
    <<"M", "i", "c", "r", "o", "s", "o", "f", "t", ".",
      "S", "e", "r", "v", "i", "c", "e", "B", "u", "s">>

kwNamespaces == <<"n", "a", "m", "e", "s", "p", "a", "c", "e", "s">>

kwTopics == <<"t", "o", "p", "i", "c", "s">>

TopicIdShape ==
    << Static(kwSubscriptions), UserSpecified("SubscriptionId"),
       Static(kwResourceGroups), UserSpecified("ResourceGroupName"),
       Static(kwProviders), Static(kwMicrosoftServiceBus),
       Static(kwNamespaces), UserSpecified("NamespaceName"),
       Static(kwTopics), UserSpecified("TopicName") >>

Subscriptions2IdShape ==
    TopicIdShape \o << Static(kwSubscriptions), UserSpecified("SubscriptionName") >>

ParseTopicID(input) == ParseId(TopicIdShape, input)

NewTopicID(subscriptionId, resourceGroupName, namespaceName, topicName) ==
    [SubscriptionId |-> subscriptionId, ResourceGroupName |-> resourceGroupName,
     NamespaceName |-> namespaceName, TopicName |-> topicName]

NewSubscriptions2ID(subscriptionId, resourceGroupName, namespaceName, topicName, name) ==
    [SubscriptionId |-> subscriptionId, ResourceGroupName |-> resourceGroupName,
     NamespaceName |-> namespaceName, TopicName |-> topicName,
     SubscriptionName |-> name]

Subscriptions2IdID(id) == FormatId(Subscriptions2IdShape, id)

-----------------------------------------------------------------------------
(* helpers/service_plan.go                                                 *)

ServicePlanTypeAppPlan == "app"
ServicePlanTypeConsumption == "consumption"
ServicePlanTypeElastic == "elastic"
ServicePlanTypeFlexConsumption == "flexconsumption"
ServicePlanTypeIsolated == "isolated"
ServicePlanTypePremium == "premium"
ServicePlanTypeWorkflow == "workflow"
ServicePlanTypeUnknown == "unknown"

appServicePlanSkus ==
    << <<"B", "1">>, <<"B", "2">>, <<"B", "3">>,
       <<"S", "1">>, <<"S", "2">>, <<"S", "3">> >>

freeSkus == << <<"F", "1">> >>

sharedSkus_withStandard ==
    << <<"D", "1">>, <<"S", "H", "A", "R", "E", "D">>, <<"s", "1">> >>

sharedSkus == << <<"D", "1">>, <<"S", "H", "A", "R", "E", "D">> >>

consumptionSkus == << <<"Y", "1">> >>

premiumSkus ==
    << <<"P", "1", "v", "2">>, <<"P", "2", "v", "2">>, <<"P", "3", "v", "2">>,
       <<"P", "0", "v", "3">>, <<"P", "1", "v", "3">>, <<"P", "2", "v", "3">>,
       <<"P", "3", "v", "3">>,
       <<"P", "1", "m", "v", "3">>, <<"P", "2", "m", "v", "3">>,
       <<"P", "3", "m", "v", "3">>, <<"P", "4", "m", "v", "3">>,
       <<"P", "5", "m", "v", "3">> >>

flexConsumptionSkus == << <<"F", "C", "1">> >>

elasticSkus == << <<"E", "P", "1">>, <<"E", "P", "2">>, <<"E", "P", "3">> >>

isolatedSkus ==
    << <<"I", "1">>, <<"I", "2">>, <<"I", "3">>,
       <<"I", "1", "v", "2">>, <<"I", "2", "v", "2">>, <<"I", "3", "v", "2">>,
       <<"I", "4", "v", "2">>, <<"I", "5", "v", "2">>, <<"I", "6", "v", "2">>,
       <<"I", "1", "m", "v", "2">>, <<"I", "2", "m", "v", "2">>,
       <<"I", "3", "m", "v", "2">>, <<"I", "4", "m", "v", "2">>,
       <<"I", "5", "m", "v", "2">> >>

workflowSkus == << <<"W", "S", "1">>, <<"W", "S", "2">>, <<"W", "S", "3">> >>

AllKnownServicePlanSkus ==
    appServicePlanSkus \o consumptionSkus \o elasticSkus \o flexConsumptionSkus
        \o freeSkus \o isolatedSkus \o premiumSkus \o sharedSkus \o workflowSkus

\* for _, v := range table { if strings.EqualFold(input, v) { return true } }
InTable(input, table) ==
    \E i \in 1..Len(table) : EqualFold(input, table[i])

PlanIsConsumption(input) ==
    IF input = <<>> THEN FALSE ELSE InTable(input[1], consumptionSkus)

\* premium membership by == instead of strings.EqualFold
PlanIsPremium_caseSensitive(input) ==
    IF input = <<>> THEN FALSE
    ELSE \E i \in 1..Len(premiumSkus) : input = premiumSkus[i]

PlanIsPremium(input) ==
    IF input = <<>> THEN FALSE ELSE InTable(input, premiumSkus)

PlanIsFlexConsumption(input) ==
    IF input = <<>> THEN FALSE ELSE InTable(input[1], flexConsumptionSkus)

PlanIsElastic(input) ==
    IF input = <<>> THEN FALSE ELSE InTable(input[1], elasticSkus)

PlanIsIsolated(input) ==
    IF input = <<>> THEN FALSE ELSE InTable(input[1], isolatedSkus)

PlanIsAppPlan(input) ==
    IF input = <<>> THEN FALSE ELSE InTable(input[1], appServicePlanSkus)

PlanIsWorkflow(input) ==
    IF input = <<>> THEN FALSE ELSE InTable(input[1], workflowSkus)

\* the if-statements of PlanTypeFromSku with elastic tested before workflow
\* and consumption
PlanTypeChecks_elasticFirst(input) ==
    << [pred |-> "PlanIsPremium", hit |-> PlanIsPremium(input),
        type |-> ServicePlanTypePremium],
       [pred |-> "PlanIsElastic", hit |-> PlanIsElastic(<<input>>),
        type |-> ServicePlanTypeElastic],
       [pred |-> "PlanIsWorkflow", hit |-> PlanIsWorkflow(<<input>>),
        type |-> ServicePlanTypeWorkflow],
       [pred |-> "PlanIsConsumption", hit |-> PlanIsConsumption(<<input>>),
        type |-> ServicePlanTypeConsumption],
       [pred |-> "PlanIsFlexConsumption", hit |-> PlanIsFlexConsumption(<<input>>),
        type |-> ServicePlanTypeFlexConsumption],
       [pred |-> "PlanIsIsolated", hit |-> PlanIsIsolated(<<input>>),
        type |-> ServicePlanTypeIsolated],
       [pred |-> "PlanIsAppPlan", hit |-> PlanIsAppPlan(<<input>>),
        type |-> ServicePlanTypeAppPlan] >>

\* the if-statements of PlanTypeFromSku with the app-plan test left out
PlanTypeChecks_noAppPlan(input) ==
    << [pred |-> "PlanIsPremium", hit |-> PlanIsPremium(input),
        type |-> ServicePlanTypePremium],
       [pred |-> "PlanIsWorkflow", hit |-> PlanIsWorkflow(<<input>>),
        type |-> ServicePlanTypeWorkflow],
       [pred |-> "PlanIsConsumption", hit |-> PlanIsConsumption(<<input>>),
        type |-> ServicePlanTypeConsumption],
       [pred |-> "PlanIsFlexConsumption", hit |-> PlanIsFlexConsumption(<<input>>),
        type |-> ServicePlanTypeFlexConsumption],
       [pred |-> "PlanIsElastic", hit |-> PlanIsElastic(<<input>>),
        type |-> ServicePlanTypeElastic],
       [pred |-> "PlanIsIsolated", hit |-> PlanIsIsolated(<<input>>),
        type |-> ServicePlanTypeIsolated] >>

\* the if-statements of PlanTypeFromSku, in program order: the predicate each
\* one calls, its value on the input, and the constant its body returns
PlanTypeChecks(input) ==
    << [pred |-> "PlanIsPremium", hit |-> PlanIsPremium(input),
        type |-> ServicePlanTypePremium],
       [pred |-> "PlanIsWorkflow", hit |-> PlanIsWorkflow(<<input>>),
        type |-> ServicePlanTypeWorkflow],
       [pred |-> "PlanIsConsumption", hit |-> PlanIsConsumption(<<input>>),
        type |-> ServicePlanTypeConsumption],
       [pred |-> "PlanIsFlexConsumption", hit |-> PlanIsFlexConsumption(<<input>>),
        type |-> ServicePlanTypeFlexConsumption],
       [pred |-> "PlanIsElastic", hit |-> PlanIsElastic(<<input>>),
        type |-> ServicePlanTypeElastic],
       [pred |-> "PlanIsIsolated", hit |-> PlanIsIsolated(<<input>>),
        type |-> ServicePlanTypeIsolated],
       [pred |-> "PlanIsAppPlan", hit |-> PlanIsAppPlan(<<input>>),
        type |-> ServicePlanTypeAppPlan] >>

\* runs the if-statements from the i-th on: the value returned and the
\* predicates called on the way (an early return skips the rest)
RECURSIVE RunChecks(_, _)
RunChecks(checks, i) ==
    IF i > Len(checks)
    THEN [type |-> ServicePlanTypeUnknown, called |-> <<>>]
    ELSE IF checks[i].hit
         THEN [type |-> checks[i].type, called |-> <<checks[i].pred>>]
         ELSE LET rest == RunChecks(checks, i + 1)
              IN  [type |-> rest.type, called |-> <<checks[i].pred>> \o rest.called]

PlanTypeFromSku(input) == RunChecks(PlanTypeChecks(input), 1).type

PlanTypeFromSkuCalls(input) == RunChecks(PlanTypeChecks(input), 1).called

\* zone balancing that leaves the consumption plans out
PlanSupportsZoneBalancing_noConsumption(input) ==
    PlanTypeFromSku(input) \in
        {ServicePlanTypePremium, ServicePlanTypeElastic, ServicePlanTypeWorkflow,
         ServicePlanTypeFlexConsumption, ServicePlanTypeIsolated}

PlanSupportsZoneBalancing(input) ==
    PlanTypeFromSku(input) \in
        {ServicePlanTypePremium, ServicePlanTypeElastic, ServicePlanTypeWorkflow,
         ServicePlanTypeConsumption, ServicePlanTypeFlexConsumption,
         ServicePlanTypeIsolated}

\* scale-out derived from the category instead of the prefix
PlanSupportsScaleOut_byCategory(plan) ==
    PlanTypeFromSku(plan) \in {ServicePlanTypeElastic, ServicePlanTypeWorkflow}

PlanSupportsScaleOut(plan) ==
    HasPrefix(plan, <<"E", "P">>) \/ HasPrefix(plan, <<"W", "S">>)

-----------------------------------------------------------------------------
(* The plan codes the classifier is run on: every code of every table in   *)
(* four letter cases, with its last rune dropped and with a rune appended, *)
(* and codes of no table.                                                  *)

SwapCase(s) ==
    [i \in 1..Len(s) |->
        IF s[i] \in UpperSet THEN ToLowerRune(s[i]) ELSE ToUpperRune(s[i])]

Variants(s) ==
    {s, ToLower(s), ToUpper(s), SwapCase(s),
     SubSeq(s, 1, Len(s) - 1), s \o <<"9">>}

UnlistedSkus ==
    { <<>>,
      <<"X", "Y", "Z", "1", "2", "3">>,
      <<"E", "P">>, <<"W", "S">>, <<"E", "P", "9">>, <<"e", "p", "9">>,
      <<"W", LongS, "1">>, <<"W", "S", "4">>, <<"w", "s", "4">>,
      <<"E", "1">>, <<"P", "E", "1">>, <<" ", "E", "P", "1">> }

SkuInputs ==
    UNION {Variants(AllKnownServicePlanSkus[i]) : i \in 1..Len(AllKnownServicePlanSkus)}
        \cup UnlistedSkus

SbIdle ==
    /\ fivePointOh = FALSE
    /\ sbConfig = <<>>
    /\ sbData = <<>>
    /\ sbGetCalls = <<>>
    /\ sbResult = "idle"

PvIdle ==
    /\ pvConfig = <<>>
    /\ pvData = <<>>
    /\ pvIdOrigin = "none"
    /\ pvOp = "idle"
    /\ pvCalls = <<>>
    /\ pvParsed = <<>>
    /\ pvResult = "idle"

SpiIdle ==
    /\ spiSite = <<>>
    /\ spiPlan = <<>>
    /\ spiOp = "idle"
    /\ spiCalls = <<>>
    /\ spiOut = <<>>
    /\ spiPanic = FALSE

SkuInit ==
    /\ SbIdle
    /\ PvIdle
    /\ SpiIdle
    /\ skuInput \in SkuInputs
    /\ planType = NotCalled
    /\ checked = <<>>
    /\ zoneBalancing = <<>>
    /\ scaleOut = <<>>

CallPlanTypeFromSku ==
    /\ planType = NotCalled
    /\ planType' = PlanTypeFromSku(skuInput)
    /\ checked' = PlanTypeFromSkuCalls(skuInput)
    /\ UNCHANGED <<skuInput, zoneBalancing, scaleOut>>

CallPlanSupportsZoneBalancing ==
    /\ zoneBalancing = <<>>
    /\ zoneBalancing' = <<PlanSupportsZoneBalancing(skuInput)>>
    /\ UNCHANGED <<skuInput, planType, checked, scaleOut>>

CallPlanSupportsScaleOut ==
    /\ scaleOut = <<>>
    /\ scaleOut' = <<PlanSupportsScaleOut(skuInput)>>
    /\ UNCHANGED <<skuInput, planType, checked, zoneBalancing>>

SkuNext ==
    \/ CallPlanTypeFromSku /\ UNCHANGED <<sbVars, pvVars, spiVars>>
    \/ CallPlanSupportsZoneBalancing /\ UNCHANGED <<sbVars, pvVars, spiVars>>
    \/ CallPlanSupportsScaleOut /\ UNCHANGED <<sbVars, pvVars, spiVars>>

SkuSpec == SkuInit /\ [][SkuNext]_vars


-----------------------------------------------------------------------------
(* servicebus/servicebus_subscription_data_source.go                       *)

\* how many of the names of NamePool the configurations draw from
MaxNames == 2

NamePool ==
    << <<"n", "s", "-", "a">>, <<"n", "s", "-", "b">>, <<"N", "s", "-", "A">>,
       <<"x", "1">>, <<"X", "1">> >>

Names == {NamePool[i] : i \in 1..MaxNames}

\* meta.(*clients.Client).Account.SubscriptionId
ProviderSubscriptionId == <<"s", "u", "b", "-", "0">>

OtherSubscriptionId == <<"s", "u", "b", "-", "1">>

TopicPath(sub, rg, ns, topic) == FormatId(TopicIdShape, NewTopicID(sub, rg, ns, topic))

ValidTopicIds ==
    {TopicPath(sub, rg, ns, topic) :
        sub \in {ProviderSubscriptionId, OtherSubscriptionId},
        rg \in Names, ns \in Names, topic \in Names}

LowerKeywords(shape) ==
    [i \in 1..Len(shape) |->
        IF shape[i].kind = "static" THEN Static(ToLower(shape[i].word)) ELSE shape[i]]

\* topic IDs in the canonical form but for the letter case of the keywords
LowerKeywordTopicIds ==
    {FormatId(LowerKeywords(TopicIdShape),
              NewTopicID(OtherSubscriptionId, NamePool[1], n, NamePool[1])) : n \in Names}

\* identifiers that are not topic IDs: an empty value, a segment too few or
\* too many, another keyword, no leading "/"
MalformedTopicIds ==
    LET n == NamePool[1]
        queues == <<"q", "u", "e", "u", "e", "s">>
    IN  { TopicPath(<<>>, n, n, n),
          TopicPath(ProviderSubscriptionId, n, <<>>, n),
          TopicPath(ProviderSubscriptionId, n, n, <<>>),
          FormatId(SubSeq(TopicIdShape, 1, 8),
                   NewTopicID(ProviderSubscriptionId, n, n, n)),
          FormatId(Subscriptions2IdShape,
                   NewSubscriptions2ID(ProviderSubscriptionId, n, n, n, n)),
          FormatId(SubSeq(TopicIdShape, 1, 8) \o <<Static(queues), UserSpecified("TopicName")>>,
                   NewTopicID(ProviderSubscriptionId, n, n, n)),
          Tail(TopicPath(ProviderSubscriptionId, n, n, n)),
          n }

\* the configurations the schema admits: from 5.0 on topic_id is required and
\* the discrete fields are gone; before, all four are optional and
\* AtLeastOneOf demands one of them
SbConfigs(five) ==
    IF five
    THEN {[topic_id |-> t, resource_group_name |-> <<>>, namespace_name |-> <<>>,
           topic_name |-> <<>>, name |-> nm] :
             t \in ValidTopicIds \cup LowerKeywordTopicIds \cup MalformedTopicIds,
             nm \in Names}
    ELSE {c \in [topic_id : {<<>>} \cup ValidTopicIds \cup LowerKeywordTopicIds
                                \cup MalformedTopicIds,
                 resource_group_name : {<<>>} \cup Names,
                 namespace_name : {<<>>} \cup Names,
                 topic_name : {<<>>} \cup Names,
                 name : Names] :
            ~(/\ c.topic_id = <<>>
              /\ c.resource_group_name = <<>>
              /\ c.namespace_name = <<>>
              /\ c.topic_name = <<>>)}

\* lines 140-157 with the discrete fields overriding the topic ID's wherever
\* they are set
ResolveTopic_discreteOverrides(cfg, five) ==
    IF cfg.topic_id # <<>>
    THEN LET topicId == ParseTopicID(cfg.topic_id)
         IN  IF ~topicId.ok
             THEN [err |-> TRUE, rgName |-> <<>>, nsName |-> <<>>, topicName |-> <<>>]
             ELSE [err |-> FALSE,
                   rgName |-> IF ~five /\ cfg.resource_group_name # <<>>
                              THEN cfg.resource_group_name
                              ELSE topicId.id.ResourceGroupName,
                   nsName |-> IF ~five /\ cfg.namespace_name # <<>>
                              THEN cfg.namespace_name
                              ELSE topicId.id.NamespaceName,
                   topicName |-> IF ~five /\ cfg.topic_name # <<>>
                                 THEN cfg.topic_name
                                 ELSE topicId.id.TopicName]
    ELSE [err |-> FALSE, rgName |-> <<>>, nsName |-> <<>>, topicName |-> <<>>]

\* lines 140-157 with the parse error dropped
ResolveTopic_ignoresParseError(cfg, five) ==
    IF cfg.topic_id # <<>>
    THEN LET topicId == ParseTopicID(cfg.topic_id)
         IN  IF ~topicId.ok
             THEN [err |-> FALSE, rgName |-> <<>>, nsName |-> <<>>, topicName |-> <<>>]
             ELSE [err |-> FALSE,
                   rgName |-> topicId.id.ResourceGroupName,
                   nsName |-> topicId.id.NamespaceName,
                   topicName |-> topicId.id.TopicName]
    ELSE [err |-> FALSE, rgName |-> <<>>, nsName |-> <<>>, topicName |-> <<>>]

\* lines 140-157: rgName, nsName and topicName start as "" and are assigned
\* only inside the branch taken when topic_id is a non-empty string
ResolveTopic(cfg, five) ==
    IF cfg.topic_id # <<>>
    THEN LET topicId == ParseTopicID(cfg.topic_id)
         IN  IF ~topicId.ok
             THEN [err |-> TRUE, rgName |-> <<>>, nsName |-> <<>>, topicName |-> <<>>]
             ELSE IF ~five /\ topicId.id.SubscriptionId = <<>>
                  THEN [err |-> FALSE,
                        rgName |-> cfg.resource_group_name,
                        nsName |-> cfg.namespace_name,
                        topicName |-> cfg.topic_name]
                  ELSE [err |-> FALSE,
                        rgName |-> topicId.id.ResourceGroupName,
                        nsName |-> topicId.id.NamespaceName,
                        topicName |-> topicId.id.TopicName]
    ELSE [err |-> FALSE, rgName |-> <<>>, nsName |-> <<>>, topicName |-> <<>>]

\* SBSubscriptionProperties with every optional property set, and with none
FullProperties ==
    [AutoDeleteOnIdle |-> <<"P10675199DT2H48M5.4775807S">>,
     DefaultMessageTimeToLive |-> <<"P14D">>,
     LockDuration |-> <<"PT1M">>,
     DeadLetteringOnMessageExpiration |-> <<TRUE>>,
     DeadLetteringOnFilterEvaluationExceptions |-> <<TRUE>>,
     EnableBatchedOperations |-> <<TRUE>>,
     RequiresSession |-> <<FALSE>>,
     ForwardDeadLetteredMessagesTo |-> <<"dlq">>,
     ForwardTo |-> <<"queue">>,
     MaxDeliveryCount |-> <<10>>]

NilProperties ==
    [AutoDeleteOnIdle |-> <<>>,
     DefaultMessageTimeToLive |-> <<>>,
     LockDuration |-> <<>>,
     DeadLetteringOnMessageExpiration |-> <<>>,
     DeadLetteringOnFilterEvaluationExceptions |-> <<>>,
     EnableBatchedOperations |-> <<>>,
     RequiresSession |-> <<>>,
     ForwardDeadLetteredMessagesTo |-> <<>>,
     ForwardTo |-> <<>>,
     MaxDeliveryCount |-> <<>>]

\* what SubscriptionsClient.Get can answer: a model (with or without
\* properties), no model, 404, or another failure
SbGetResponses ==
    { [err |-> FALSE, notFound |-> FALSE, Model |-> <<[Properties |-> <<FullProperties>>]>>],
      [err |-> FALSE, notFound |-> FALSE, Model |-> <<[Properties |-> <<NilProperties>>]>>],
      [err |-> FALSE, notFound |-> FALSE, Model |-> <<[Properties |-> <<>>]>>],
      [err |-> FALSE, notFound |-> FALSE, Model |-> <<>>],
      [err |-> TRUE, notFound |-> TRUE, Model |-> <<>>],
      [err |-> TRUE, notFound |-> FALSE, Model |-> <<>>] }

\* lines 171-194: the fields d.Set writes for a response
SbFlatten(fields, resp, five) ==
    IF resp.Model = <<>> \/ resp.Model[1].Properties = <<>>
    THEN fields
    ELSE LET props == resp.Model[1].Properties[1]
             common ==
                 [auto_delete_on_idle |-> props.AutoDeleteOnIdle,
                  default_message_ttl |-> props.DefaultMessageTimeToLive,
                  lock_duration |-> props.LockDuration,
                  dead_lettering_on_message_expiration |->
                      props.DeadLetteringOnMessageExpiration,
                  dead_lettering_on_filter_evaluation_error |->
                      props.DeadLetteringOnFilterEvaluationExceptions,
                  batched_operations_enabled |-> props.EnableBatchedOperations,
                  requires_session |-> props.RequiresSession,
                  forward_dead_lettered_messages_to |-> props.ForwardDeadLetteredMessagesTo,
                  forward_to |-> props.ForwardTo,
                  max_delivery_count |->
                      IF props.MaxDeliveryCount # <<>> THEN props.MaxDeliveryCount[1] ELSE 0]
         IN  IF ~five
             THEN common @@ [enable_batched_operations |-> props.EnableBatchedOperations]
             ELSE common

FreshResourceData == [id |-> <<>>, fields |-> <<>>]

SkuIdle ==
    /\ skuInput = <<>>
    /\ planType = "idle"
    /\ checked = <<>>
    /\ zoneBalancing = <<>>
    /\ scaleOut = <<>>

SbInit ==
    /\ SkuIdle
    /\ fivePointOh \in BOOLEAN
    /\ sbConfig \in SbConfigs(fivePointOh)
    /\ sbData = FreshResourceData
    /\ sbGetCalls = <<>>
    /\ sbResult = "pending"
    /\ PvIdle
    /\ SpiIdle

dataSourceServiceBusSubscriptionRead ==
    /\ sbResult = "pending"
    /\ \E r \in {ResolveTopic(sbConfig, fivePointOh)} :
           IF r.err
           THEN /\ sbResult' = "parse_error"
                /\ UNCHANGED <<sbData, sbGetCalls>>
           ELSE LET id == NewSubscriptions2ID(ProviderSubscriptionId, r.rgName, r.nsName,
                                              r.topicName, sbConfig.name)
                IN  \E resp \in SbGetResponses :
                       /\ sbGetCalls' = Append(sbGetCalls, id)
                       /\ IF resp.err
                          THEN /\ sbResult' = IF resp.notFound THEN "not_found"
                                              ELSE "retrieve_error"
                               /\ UNCHANGED sbData
                          ELSE /\ sbData' = [id |-> Subscriptions2IdID(id),
                                             fields |-> SbFlatten(sbData.fields, resp,
                                                                  fivePointOh)]
                               /\ sbResult' = "ok"
    /\ UNCHANGED <<fivePointOh, sbConfig>>

SbNext ==
    \/ dataSourceServiceBusSubscriptionRead /\ UNCHANGED <<skuVars, pvVars, spiVars>>

SbSpec == SbInit /\ [][SbNext]_vars

-----------------------------------------------------------------------------
(* Purview account resource (package purview)                              *)

\* how many of the names of PvNamePool the configurations draw from
MaxPvNames == 2

PvNamePool ==
    << <<"p", "v", "-", "a">>, <<"P", "v", "-", "A">>, <<"p", "v", "-", "b">>,
       <<"y", "2">>, <<"Y", "2">> >>

PvNames == {PvNamePool[i] : i \in 1..MaxPvNames}

kwMicrosoftPurview ==
    <<"M", "i", "c", "r", "o", "s", "o", "f", "t", ".", "P", "u", "r", "v", "i", "e", "w">>

kwAccounts == <<"a", "c", "c", "o", "u", "n", "t", "s">>

AccountIdShape ==
    << Static(kwSubscriptions), UserSpecified("SubscriptionId"),
       Static(kwResourceGroups), UserSpecified("ResourceGroup"),
       Static(kwProviders), Static(kwMicrosoftPurview),
       Static(kwAccounts), UserSpecified("Name") >>

\* parse.NewAccountID
NewAccountID(subscriptionId, resourceGroup, name) ==
    [SubscriptionId |-> subscriptionId, ResourceGroup |-> resourceGroup, Name |-> name]

\* parse.AccountId.ID
AccountIdID(id) == FormatId(AccountIdShape, id)

\* parse.AccountID
AccountID(input) == ParseId(AccountIdShape, input)

PvConfigs ==
    [name : PvNames, resource_group_name : PvNames, location : {"West Europe"},
     sku_name : {"Standard_4"}, public_network_enabled : BOOLEAN]

\* the IDs `terraform import` is given and the importer accepts: canonical
\* ones, and ones whose keywords are in lower case
PvImportIds ==
    {id \in {FormatId(shape, NewAccountID(sub, rg, name)) :
                shape \in {AccountIdShape, LowerKeywords(AccountIdShape)},
                sub \in {ProviderSubscriptionId, OtherSubscriptionId},
                rg \in PvNames, name \in PvNames} :
        AccountID(id).ok}

\* line 130 with the two names exchanged
PvBuildId_namesExchanged(cfg) ==
    NewAccountID(ProviderSubscriptionId, cfg.name, cfg.resource_group_name)

\* line 130: the ID of the account the configuration describes
PvBuildId(cfg) ==
    NewAccountID(ProviderSubscriptionId, cfg.resource_group_name, cfg.name)

\* azure.NormalizeLocation: lower case, spaces removed
NormalizeLocation(input) ==
    IF input = "West Europe" THEN "westeurope"
    ELSE IF input = "WestEurope" THEN "westeurope"
    ELSE input

\* location.NormalizeNilable
NormalizeNilable(input) ==
    IF input = <<>> THEN "" ELSE NormalizeLocation(input[1])

\* expandPurviewSkuName: azure.SplitSku cuts "Standard_4" at the "_"
expandPurviewSkuName(cfg) ==
    IF cfg.sku_name = "" THEN <<>>
    ELSE IF cfg.sku_name = "Standard_4" THEN <<[Name |-> "Standard", Capacity |-> <<4>>]>>
    ELSE IF cfg.sku_name = "Standard_16" THEN <<[Name |-> "Standard", Capacity |-> <<16>>]>>
    ELSE <<>>

\* flattenPurviewSkuName: Sprintf("%s_%d", Name, *Capacity)
flattenPurviewSkuName(input) ==
    IF input = <<>> THEN ""
    ELSE IF input[1].Capacity = <<>> THEN ""
    ELSE IF input[1].Name = "Standard" /\ input[1].Capacity = <<4>> THEN "Standard_4"
    ELSE IF input[1].Name = "Standard" /\ input[1].Capacity = <<16>> THEN "Standard_16"
    ELSE "other"

flattenPurviewAccountIdentity(identity) ==
    IF identity = <<>> THEN <<>>
    ELSE IF identity[1].Type = "None" THEN <<>>
    ELSE <<[type |-> identity[1].Type,
            principal_id |-> IF identity[1].PrincipalID # <<>>
                             THEN identity[1].PrincipalID[1] ELSE "",
            tenant_id |-> IF identity[1].TenantID # <<>>
                          THEN identity[1].TenantID[1] ELSE ""]>>

\* lines 144-158: the account sent to CreateOrUpdate
PvAccount(cfg) ==
    [AccountProperties |->
        [PublicNetworkAccess |-> IF cfg.public_network_enabled THEN "Enabled" ELSE "Disabled"],
     Identity |-> [Type |-> "SystemAssigned"],
     Location |-> NormalizeLocation(cfg.location),
     Sku |-> expandPurviewSkuName(cfg)]

\* what AccountsClient.Get can answer
PvGetResponses ==
    { [err |-> FALSE, notFound |-> FALSE, Location |-> <<"WestEurope">>,
       Sku |-> <<[Name |-> "Standard", Capacity |-> <<4>>]>>,
       Identity |-> <<[Type |-> "SystemAssigned", PrincipalID |-> <<"principal">>,
                       TenantID |-> <<"tenant">>]>>,
       AccountProperties |-> <<[PublicNetworkAccess |-> "Enabled",
                                Endpoints |-> <<[Catalog |-> "catalog", Guardian |-> "guardian",
                                                 Scan |-> "scan"]>>]>>],
      [err |-> FALSE, notFound |-> FALSE, Location |-> <<"westeurope">>,
       Sku |-> <<[Name |-> "Standard", Capacity |-> <<>>]>>,
       Identity |-> <<[Type |-> "None", PrincipalID |-> <<>>, TenantID |-> <<>>]>>,
       AccountProperties |-> <<[PublicNetworkAccess |-> "Disabled", Endpoints |-> <<>>]>>],
      [err |-> FALSE, notFound |-> FALSE, Location |-> <<>>,
       Sku |-> <<>>, Identity |-> <<>>, AccountProperties |-> <<>>],
      [err |-> TRUE, notFound |-> TRUE, Location |-> <<>>,
       Sku |-> <<>>, Identity |-> <<>>, AccountProperties |-> <<>>],
      [err |-> TRUE, notFound |-> FALSE, Location |-> <<>>,
       Sku |-> <<>>, Identity |-> <<>>, AccountProperties |-> <<>>] }

PvCall(op, id) == [op |-> op, ResourceGroup |-> id.ResourceGroup, Name |-> id.Name]

\* d.Set of every key of new, the other keys of old kept
SetFields(old, new) == new @@ old

FreshPvData == [id |-> <<>>, fields |-> <<>>]

\* resourcePurviewAccountRead on the ResourceData data, AccountsClient.Get
\* answering resp and ListKeys failing or not
PvRead(data, resp, keysFail) ==
    LET id == AccountID(data.id)
    IN  IF ~id.ok
        THEN [data |-> data, calls |-> <<>>, parsed |-> <<id>>, result |-> "parse_error"]
        ELSE IF resp.err
        THEN IF resp.notFound
             THEN [data |-> [data EXCEPT !.id = <<>>], calls |-> <<PvCall("Get", id.id)>>,
                   parsed |-> <<id>>, result |-> "nil"]
             ELSE [data |-> data, calls |-> <<PvCall("Get", id.id)>>,
                   parsed |-> <<id>>, result |-> "retrieve_error"]
        ELSE LET basic ==
                     [name |-> id.id.Name,
                      resource_group_name |-> id.id.ResourceGroup,
                      location |-> NormalizeNilable(resp.Location),
                      sku_name |-> flattenPurviewSkuName(resp.Sku),
                      identity |-> flattenPurviewAccountIdentity(resp.Identity)]
                 props ==
                     IF resp.AccountProperties = <<>> THEN <<>>
                     ELSE [public_network_enabled |->
                              resp.AccountProperties[1].PublicNetworkAccess = "Enabled"]
                 endpoints ==
                     IF resp.AccountProperties = <<>> THEN <<>>
                     ELSE IF resp.AccountProperties[1].Endpoints = <<>> THEN <<>>
                     ELSE [catalog_endpoint |-> resp.AccountProperties[1].Endpoints[1].Catalog,
                           guardian_endpoint |-> resp.AccountProperties[1].Endpoints[1].Guardian,
                           scan_endpoint |-> resp.AccountProperties[1].Endpoints[1].Scan]
                 read == SetFields(data.fields, basic @@ props @@ endpoints)
                 keys == [atlas_kafka_endpoint_primary_connection_string |-> "primary",
                          atlas_kafka_endpoint_secondary_connection_string |-> "secondary",
                          tags |-> "tags"]
             IN  IF keysFail
                 THEN [data |-> [data EXCEPT !.fields = read],
                       calls |-> <<PvCall("Get", id.id), PvCall("ListKeys", id.id)>>,
                       parsed |-> <<id>>, result |-> "keys_error"]
                 ELSE [data |-> [data EXCEPT !.fields = SetFields(read, keys)],
                       calls |-> <<PvCall("Get", id.id), PvCall("ListKeys", id.id)>>,
                       parsed |-> <<id>>, result |-> "nil"]

\* a handler returns: what it leaves behind
PvReturn(op, data, origin, calls, parsed, result) ==
    /\ pvOp' = op
    /\ pvData' = data
    /\ pvIdOrigin' = IF data.id = <<>> THEN "none" ELSE origin
    /\ pvCalls' = calls
    /\ pvParsed' = parsed
    /\ pvResult' = result
    /\ UNCHANGED pvConfig

\* resourcePurviewAccountCreateUpdate with d.SetId moved up, before the wait
\* for the completion of CreateOrUpdate
PvCreateUpdate_idBeforeWait(op, data, isNew) ==
    \E id \in {PvBuildId(pvConfig)} :
    \E existing \in IF isNew THEN {"found", "not_found", "error"} ELSE {"not_asked"} :
    \E future \in {"error", "wait_error", "completed"} :
        LET asked == IF isNew THEN <<PvCall("Get", id) @@ [answer |-> existing]>> ELSE <<>>
            sent == Append(asked, PvCall("CreateOrUpdate", id)
                                      @@ [account |-> PvAccount(pvConfig), answer |-> future])
        IN  IF existing = "error"
            THEN PvReturn(op, data, pvIdOrigin, asked, <<>>, "presence_error")
            ELSE IF existing = "found"
            THEN PvReturn(op, data, pvIdOrigin, asked, <<>>, "import_as_exists_error")
            ELSE IF future = "error"
            THEN PvReturn(op, data, pvIdOrigin, sent, <<>>, "create_error")
            ELSE IF future = "wait_error"
            THEN PvReturn(op, [data EXCEPT !.id = AccountIdID(id)], "create", sent, <<>>,
                          "wait_error")
            ELSE \E resp \in PvGetResponses, keysFail \in BOOLEAN :
                 \E r \in {PvRead([data EXCEPT !.id = AccountIdID(id)], resp, keysFail)} :
                    PvReturn(op, r.data, "create", sent \o r.calls, r.parsed, r.result)

\* resourcePurviewAccountCreateUpdate on the ResourceData data; the calls of
\* the handler are logged with what the service answered: for the existence
\* check "found", "not_found" or "error", for CreateOrUpdate "error" (request
\* refused), "wait_error" (accepted, the wait failed) or "completed"
PvCreateUpdate(op, data, isNew) ==
    \E id \in {PvBuildId(pvConfig)} :
    \E existing \in IF isNew THEN {"found", "not_found", "error"} ELSE {"not_asked"} :
        LET asked == IF isNew THEN <<PvCall("Get", id) @@ [answer |-> existing]>> ELSE <<>>
        IN  IF existing = "error"
            THEN PvReturn(op, data, pvIdOrigin, asked, <<>>, "presence_error")
            ELSE IF existing = "found"
            THEN PvReturn(op, data, pvIdOrigin, asked, <<>>, "import_as_exists_error")
            ELSE \E future \in {"error", "wait_error", "completed"} :
                    LET sent == Append(asked, PvCall("CreateOrUpdate", id)
                                   @@ [account |-> PvAccount(pvConfig), answer |-> future])
                    IN  IF future = "error"
                        THEN PvReturn(op, data, pvIdOrigin, sent, <<>>, "create_error")
                        ELSE IF future = "wait_error"
                        THEN PvReturn(op, data, pvIdOrigin, sent, <<>>, "wait_error")
                        ELSE \E resp \in PvGetResponses, keysFail \in BOOLEAN :
                             \E r \in {PvRead([data EXCEPT !.id = AccountIdID(id)],
                                              resp, keysFail)} :
                                PvReturn(op, r.data, "create", sent \o r.calls,
                                         r.parsed, r.result)

PvInit ==
    /\ SkuIdle
    /\ SbIdle
    /\ SpiIdle
    /\ pvConfig \in PvConfigs
    /\ pvData = FreshPvData
    /\ pvIdOrigin = "none"
    /\ pvOp = "none"
    /\ pvCalls = <<>>
    /\ pvParsed = <<>>
    /\ pvResult = "none"

\* Create: the resource is new, its ResourceData holds no ID and no state
resourcePurviewAccountCreate ==
    /\ pvData.id = <<>>
    /\ PvCreateUpdate("create", FreshPvData, TRUE)

\* Update: the resource is in the state under the configured names (name and
\* resource_group_name force a new resource when they change)
resourcePurviewAccountUpdate ==
    /\ pvData.id # <<>>
    /\ "name" \in DOMAIN pvData.fields
    /\ pvData.fields.name = pvConfig.name
    /\ pvData.fields.resource_group_name = pvConfig.resource_group_name
    /\ PvCreateUpdate("update", pvData, FALSE)

resourcePurviewAccountRead ==
    /\ pvData.id # <<>>
    /\ \E resp \in PvGetResponses, keysFail \in BOOLEAN :
       \E r \in {PvRead(pvData, resp, keysFail)} :
          PvReturn("read", r.data, pvIdOrigin, r.calls, r.parsed, r.result)

\* resourcePurviewAccountDelete; after a nil return the resource leaves the state
resourcePurviewAccountDelete ==
    /\ pvData.id # <<>>
    /\ \E id \in {AccountID(pvData.id)} :
          IF ~id.ok
          THEN PvReturn("delete", pvData, pvIdOrigin, <<>>, <<id>>, "parse_error")
          ELSE \E future \in {"error", "wait_error", "completed"} :
                  IF future = "error"
                  THEN PvReturn("delete", pvData, pvIdOrigin, <<PvCall("Delete", id.id)>>,
                                <<id>>, "delete_error")
                  ELSE IF future = "wait_error"
                  THEN PvReturn("delete", pvData, pvIdOrigin, <<PvCall("Delete", id.id)>>,
                                <<id>>, "wait_error")
                  ELSE PvReturn("delete", FreshPvData, "none", <<PvCall("Delete", id.id)>>,
                                <<id>>, "nil")

\* the importer: an ID that parse.AccountID accepts becomes the resource's ID
resourcePurviewAccountImport ==
    /\ pvData.id = <<>>
    /\ \E id \in PvImportIds :
          PvReturn("import", [id |-> id, fields |-> <<>>], "import", <<>>,
                   <<AccountID(id)>>, "nil")

PvNext ==
    \/ resourcePurviewAccountCreate /\ UNCHANGED <<skuVars, sbVars, spiVars>>
    \/ resourcePurviewAccountUpdate /\ UNCHANGED <<skuVars, sbVars, spiVars>>
    \/ resourcePurviewAccountRead /\ UNCHANGED <<skuVars, sbVars, spiVars>>
    \/ resourcePurviewAccountDelete /\ UNCHANGED <<skuVars, sbVars, spiVars>>
    \/ resourcePurviewAccountImport /\ UNCHANGED <<skuVars, sbVars, spiVars>>

PvSpec == PvInit /\ [][PvNext]_vars

-----------------------------------------------------------------------------
(* appservice/helpers/service_plan.go: ServicePlanInfoForApp and           *)
(* ServicePlanInfoForAppSlot.  A response is a record of the error and of  *)
(* the Model pointer; every Go pointer is a sequence of length 0 or 1.     *)

kwMicrosoftWeb == <<"M", "i", "c", "r", "o", "s", "o", "f", "t", ".", "W", "e", "b">>

kwServerFarms == <<"s", "e", "r", "v", "e", "r", "F", "a", "r", "m", "s">>

AppServicePlanIdShape ==
    << Static(kwSubscriptions), UserSpecified("SubscriptionId"),
       Static(kwResourceGroups), UserSpecified("ResourceGroupName"),
       Static(kwProviders), Static(kwMicrosoftWeb),
       Static(kwServerFarms), UserSpecified("ServerFarmName") >>

NewAppServicePlanID(subscriptionId, resourceGroupName, serverFarmName) ==
    [SubscriptionId |-> subscriptionId, ResourceGroupName |-> resourceGroupName,
     ServerFarmName |-> serverFarmName]

ParseAppServicePlanIDInsensitively(input) == ParseId(AppServicePlanIdShape, input)

\* strings.Contains
Contains(s, substr) ==
    \E i \in 0..(Len(s) - Len(substr)) : SubSeq(s, i + 1, i + Len(substr)) = substr

osLinux == <<"l", "i", "n", "u", "x">>

osWindows == <<"w", "i", "n", "d", "o", "w", "s">>

SpiFarmNames == {<<"f", "1">>, <<"F", "2">>}

\* the ServerFarmId values of the site: IDs of service plans in the canonical
\* form, one with its keywords in lower case, and strings that are no
\* service plan ID (an empty name, a topic ID, the empty string)
SpiServerFarmIds ==
    {FormatId(AppServicePlanIdShape, NewAppServicePlanID(ProviderSubscriptionId, <<"r", "g">>, n)) :
        n \in SpiFarmNames}
    \cup {FormatId(LowerKeywords(AppServicePlanIdShape),
                   NewAppServicePlanID(OtherSubscriptionId, <<"r", "g">>, <<"f", "1">>))}
    \cup {FormatId(AppServicePlanIdShape,
                   NewAppServicePlanID(ProviderSubscriptionId, <<"r", "g">>, <<>>)),
          TopicPath(ProviderSubscriptionId, <<"r", "g">>, <<"r", "g">>, <<"r", "g">>),
          <<>>}

SpiSites ==
    {[err |-> TRUE, Model |-> <<>>],
     [err |-> FALSE, Model |-> <<>>],
     [err |-> FALSE, Model |-> <<[Properties |-> <<>>]>>],
     [err |-> FALSE, Model |-> <<[Properties |-> <<[ServerFarmId |-> <<>>]>>]>>]}
    \cup {[err |-> e, Model |-> <<[Properties |-> <<[ServerFarmId |-> <<f>>]>>]>>] :
            e \in BOOLEAN, f \in SpiServerFarmIds}

\* the Kind of the plan: nil, or a pointer to a comma-separated list of words
SpiKinds ==
    {<<>>, <<osLinux>>, <<<<"a", "p", "p", ",", "l", "i", "n", "u", "x">>>>, <<<<"L", "I", "N", "U", "X">>>>, <<<<"f", "u", "n", "c", "t", "i", "o", "n", "a", "p", "p", ",", "L", "i", "n", "u", "x", ",", "c", "o", "n", "t", "a", "i", "n", "e", "r">>>>, <<<<"a", "p", "p">>>>, <<<<"x", "e", "n", "o", "n">>>>, << <<>> >>}

\* the Sku of the plan: nil, a Sku with no Name, a Sku with a Name
SpiSkus ==
    {<<>>, <<[Name |-> <<>>]>>, <<[Name |-> << <<>> >>]>>, <<[Name |-> <<<<"P", "1", "v", "2">>>>]>>,
     <<[Name |-> <<<<"E", "P", "1">>>>]>>}

SpiPlans ==
    {[err |-> e, Model |-> <<>>] : e \in BOOLEAN}
    \cup {[err |-> e, Model |-> <<[Kind |-> k, Sku |-> s]>>] :
            e \in BOOLEAN, k \in SpiKinds, s \in SpiSkus}

SpiReturn(osType, planSku, err, calls) ==
    [panic |-> FALSE, out |-> <<[osType |-> osType, planSku |-> planSku, err |-> err]>>,
     calls |-> calls]

SpiNilDereference(calls) == [panic |-> TRUE, out |-> <<>>, calls |-> calls]

\* the body the two functions share: get names the call that reads the site
\* (client.Get or client.GetSlot), site and plan are the answers of the clients
ServicePlanInfo(get, site, plan) ==
    LET read == <<[op |-> get]>>
    IN  IF site.err \/ site.Model = <<>> \/ site.Model[1].Properties = <<>>
        THEN SpiReturn(<<>>, <<>>, <<"retrieving">>, read)
        ELSE LET props == site.Model[1].Properties[1]
             IN  IF props.ServerFarmId = <<>>
                 THEN SpiReturn(<<>>, <<>>, <<"determining Service Plan ID">>, read)
                 ELSE LET servicePlanId ==
                              ParseAppServicePlanIDInsensitively(props.ServerFarmId[1])
                          calls == Append(read, [op |-> "ServicePlansClient.Get",
                                                 id |-> servicePlanId.id])
                      IN  IF ~servicePlanId.ok
                          THEN SpiReturn(<<>>, <<>>, <<"parsing Service Plan ID">>, read)
                          ELSE IF plan.err
                          THEN SpiReturn(<<>>, <<>>, <<"retrieving Service Plan">>, calls)
                          ELSE IF plan.Model = <<>>
                          THEN SpiNilDereference(calls)
                          ELSE IF plan.Model[1].Kind = <<>>
                          THEN SpiReturn(<<>>, <<>>, <<"retrieving Service Plan">>, calls)
                          ELSE SpiReturn(
                                 IF Contains(ToLower(plan.Model[1].Kind[1]), osLinux)
                                 THEN <<osLinux>> ELSE <<osWindows>>,
                                 IF plan.Model[1].Sku # <<>>
                                 THEN plan.Model[1].Sku[1].Name ELSE << <<>> >>,
                                 <<>>, calls)

SpiInit ==
    /\ SkuIdle
    /\ SbIdle
    /\ PvIdle
    /\ spiSite \in SpiSites
    /\ spiPlan \in SpiPlans
    /\ spiOp = "pending"
    /\ spiCalls = <<>>
    /\ spiOut = <<>>
    /\ spiPanic = FALSE

SpiCall(op, get) ==
    /\ spiOp = "pending"
    /\ \E r \in {ServicePlanInfo(get, spiSite, spiPlan)} :
          /\ spiOp' = op
          /\ spiCalls' = r.calls
          /\ spiOut' = r.out
          /\ spiPanic' = r.panic
    /\ UNCHANGED <<spiSite, spiPlan>>

ServicePlanInfoForApp == SpiCall("ServicePlanInfoForApp", "WebAppsClient.Get")

ServicePlanInfoForAppSlot == SpiCall("ServicePlanInfoForAppSlot", "WebAppsClient.GetSlot")

SpiNext ==
    \/ ServicePlanInfoForApp /\ UNCHANGED <<skuVars, sbVars, pvVars>>
    \/ ServicePlanInfoForAppSlot /\ UNCHANGED <<skuVars, sbVars, pvVars>>

SpiSpec == SpiInit /\ [][SpiNext]_vars

-----------------------------------------------------------------------------
(* Properties of the classifier                                            *)

AllCalled ==
    /\ planType # NotCalled
    /\ zoneBalancing # <<>>
    /\ scaleOut # <<>>

\* the order of the category tables that the classification is said to follow
PriorityOrder ==
    << [pred |-> "PlanIsPremium", skus |-> premiumSkus, type |-> "premium"],
       [pred |-> "PlanIsWorkflow", skus |-> workflowSkus, type |-> "workflow"],
       [pred |-> "PlanIsConsumption", skus |-> consumptionSkus, type |-> "consumption"],
       [pred |-> "PlanIsFlexConsumption", skus |-> flexConsumptionSkus,
        type |-> "flexconsumption"],
       [pred |-> "PlanIsElastic", skus |-> elasticSkus, type |-> "elastic"],
       [pred |-> "PlanIsIsolated", skus |-> isolatedSkus, type |-> "isolated"],
       [pred |-> "PlanIsAppPlan", skus |-> appServicePlanSkus, type |-> "app"] >>

MatchingRanks(code) ==
    {i \in 1..Len(PriorityOrder) : InTable(code, PriorityOrder[i].skus)}

FirstRank(code) ==
    CHOOSE i \in MatchingRanks(code) : \A j \in MatchingRanks(code) : i <= j

\* C3: PlanTypeFromSku tests the tables in the order premium, workflow,
\* consumption, flex-consumption, elastic, isolated, app, stops at the first
\* table that holds the code (case-insensitively) and returns that table's
\* category; with no such table it tests all seven and returns "unknown".
C3_FirstMatchInPriorityOrder ==
    planType # NotCalled =>
        LET last == IF MatchingRanks(skuInput) = {} THEN Len(PriorityOrder)
                    ELSE FirstRank(skuInput)
        IN  /\ checked = [i \in 1..last |-> PriorityOrder[i].pred]
            /\ planType = IF MatchingRanks(skuInput) = {} THEN "unknown"
                          ELSE PriorityOrder[FirstRank(skuInput)].type

\* an elastic code, lower-cased, was classified after four tables missed
C3_Witness ==
    /\ skuInput = <<"e", "p", "2">>
    /\ planType = "elastic"
    /\ Len(checked) = 5

\* the nine tables, each with the tag the classification is said to give it
TaggedTables ==
    PriorityOrder \o
    << [pred |-> "none", skus |-> freeSkus, type |-> "free"],
       [pred |-> "none", skus |-> sharedSkus, type |-> "shared"] >>

TablesHolding(code) ==
    {i \in 1..Len(TaggedTables) : InTable(code, TaggedTables[i].skus)}

\* C4 as stated: every code of any of the nine tables (free and shared
\* included) is classified to its own table's tag, and "unknown" is returned
\* only for a code of no table.
C4_EveryTableHasItsTag ==
    planType # NotCalled =>
        /\ planType \in {TaggedTables[i].type : i \in 1..Len(TaggedTables)} \cup {"unknown"}
        /\ \A i \in TablesHolding(skuInput) : planType = TaggedTables[i].type
        /\ planType = "unknown" => TablesHolding(skuInput) = {}

\* C4 amended: the result is one of the seven categories or "unknown"; a code
\* of the premium, workflow, consumption, flex-consumption, elastic, isolated or
\* app table gets its table's category; "unknown" is returned exactly for the
\* codes of none of these seven tables, which includes the codes of the free
\* and shared tables (F1, D1, SHARED) as well as unrecognized codes.
C4_SevenTablesHaveTheirTag ==
    planType # NotCalled =>
        /\ planType \in {PriorityOrder[i].type : i \in 1..Len(PriorityOrder)} \cup {"unknown"}
        /\ \A i \in MatchingRanks(skuInput) : planType = PriorityOrder[i].type
        /\ planType = "unknown" <=> MatchingRanks(skuInput) = {}
        /\ InTable(skuInput, freeSkus) \/ InTable(skuInput, sharedSkus)
              => planType = "unknown"
        /\ skuInput = <<"X", "Y", "Z", "1", "2", "3">> => planType = "unknown"

\* the free code F1 was classified
C4_Witness ==
    /\ skuInput = <<"F", "1">>
    /\ planType = "unknown"
    /\ Len(checked) = 7

PlanIsPredicatesTrueOf(code) ==
    {p \in {"PlanIsConsumption", "PlanIsPremium", "PlanIsFlexConsumption",
            "PlanIsElastic", "PlanIsIsolated", "PlanIsAppPlan", "PlanIsWorkflow"} :
        \/ p = "PlanIsConsumption" /\ PlanIsConsumption(<<code>>)
        \/ p = "PlanIsPremium" /\ PlanIsPremium(code)
        \/ p = "PlanIsFlexConsumption" /\ PlanIsFlexConsumption(<<code>>)
        \/ p = "PlanIsElastic" /\ PlanIsElastic(<<code>>)
        \/ p = "PlanIsIsolated" /\ PlanIsIsolated(<<code>>)
        \/ p = "PlanIsAppPlan" /\ PlanIsAppPlan(<<code>>)
        \/ p = "PlanIsWorkflow" /\ PlanIsWorkflow(<<code>>)}

\* C5: no code is a case-insensitive member of two of the nine tables, so at
\* most one PlanIs* predicate is true of any input.
C5_TablesMutuallyExclusive ==
    /\ Cardinality(TablesHolding(skuInput)) <= 1
    /\ Cardinality(PlanIsPredicatesTrueOf(skuInput)) <= 1
    /\ \A i, j \in 1..Len(TaggedTables) :
          i # j =>
            \A a \in 1..Len(TaggedTables[i].skus), b \in 1..Len(TaggedTables[j].skus) :
                ~EqualFold(TaggedTables[i].skus[a], TaggedTables[j].skus[b])

\* a standard code in lower case: in the app table only, and classified
C5_Witness ==
    /\ skuInput = <<"s", "1">>
    /\ TablesHolding(skuInput) = {7}
    /\ planType = "app"

BeginsWithEPorWS(code) ==
    /\ Len(code) >= 2
    /\ \/ code[1] = "E" /\ code[2] = "P"
       \/ code[1] = "W" /\ code[2] = "S"

\* C6: PlanSupportsScaleOut is true exactly of the codes whose first two
\* runes are the literal "EP" or "WS", whatever category the code has.
C6_ScaleOutFromLiteralPrefix ==
    scaleOut # <<>> => (scaleOut[1] <=> BeginsWithEPorWS(skuInput))

\* EP9 is in no table and supports scale-out
C6_Witness ==
    /\ skuInput = <<"E", "P", "9">>
    /\ planType = "unknown"
    /\ scaleOut = <<TRUE>>

\* C7: a premium code in any letter case is classified premium and supports
\* zone balancing; zone balancing is decided by the category: true for
\* premium, elastic, workflow, consumption, flex-consumption and isolated,
\* false for app and unknown.
C7_PremiumAndZoneBalancing ==
    /\ planType # NotCalled /\ InTable(skuInput, premiumSkus) => planType = "premium"
    /\ zoneBalancing # <<>> /\ InTable(skuInput, premiumSkus) => zoneBalancing[1]
    /\ planType # NotCalled /\ zoneBalancing # <<>> =>
          /\ planType \in {"premium", "elastic", "workflow", "consumption",
                           "flexconsumption", "isolated"} => zoneBalancing[1]
          /\ planType \in {"app", "unknown"} => ~zoneBalancing[1]
          /\ planType \in {"premium", "elastic", "workflow", "consumption",
                           "flexconsumption", "isolated", "app", "unknown"}

\* P1mv3 with every letter's case swapped
C7_Witness ==
    /\ skuInput = <<"p", "1", "M", "V", "3">>
    /\ planType = "premium"
    /\ zoneBalancing = <<TRUE>>

\* C8: Y1 is consumption, zone-balanced and not scaled out; XYZ123 is
\* unknown, not zone-balanced and not scaled out.
C8_Y1AndXYZ123 ==
    AllCalled =>
        /\ skuInput = <<"Y", "1">> =>
              planType = "consumption" /\ zoneBalancing = <<TRUE>> /\ scaleOut = <<FALSE>>
        /\ skuInput = <<"X", "Y", "Z", "1", "2", "3">> =>
              planType = "unknown" /\ zoneBalancing = <<FALSE>> /\ scaleOut = <<FALSE>>

C8_Witness ==
    /\ skuInput = <<"Y", "1">>
    /\ AllCalled
    /\ checked = <<"PlanIsPremium", "PlanIsWorkflow", "PlanIsConsumption">>

\* C12: every input that PlanTypeFromSku classifies as elastic or workflow,
\* in whatever letter case, has PlanSupportsScaleOut true.
C12_ElasticAndWorkflowScaleOut ==
    /\ planType \in {ServicePlanTypeElastic, ServicePlanTypeWorkflow}
    /\ scaleOut # <<>>
    => scaleOut[1]

-----------------------------------------------------------------------------
(* Properties of the Service Bus subscription data source                  *)

SbReturned == sbResult \in {"ok", "parse_error", "not_found", "retrieve_error"}

\* every well-formed topic ID of the configurations, with the values it was
\* written from
TopicIdIndex ==
    {[path |-> FormatId(shape, NewTopicID(sub, rg, ns, topic)),
      rg |-> rg, ns |-> ns, topic |-> topic] :
        shape \in {TopicIdShape, LowerKeywords(TopicIdShape)},
        sub \in {ProviderSubscriptionId, OtherSubscriptionId},
        rg \in Names, ns \in Names, topic \in Names}

\* C1: with topic_id empty and resource_group_name, namespace_name and
\* topic_name all supplied, the ID handed to client.Get carries the three
\* supplied values.
C1_DiscreteFieldsUsedWithoutTopicId ==
    /\ SbReturned
    /\ sbConfig.topic_id = <<>>
    /\ sbConfig.resource_group_name # <<>>
    /\ sbConfig.namespace_name # <<>>
    /\ sbConfig.topic_name # <<>>
    => /\ Len(sbGetCalls) = 1
       /\ sbGetCalls[1].ResourceGroupName = sbConfig.resource_group_name
       /\ sbGetCalls[1].NamespaceName = sbConfig.namespace_name
       /\ sbGetCalls[1].TopicName = sbConfig.topic_name

\* C2: with a well-formed topic_id, the resource group, namespace and topic
\* of the ID handed to client.Get are those written in the topic_id, whatever
\* the discrete fields hold.
C2_TopicIdWinsEntirely ==
    SbReturned =>
        \A e \in TopicIdIndex :
            e.path = sbConfig.topic_id =>
                /\ Len(sbGetCalls) = 1
                /\ sbGetCalls[1].ResourceGroupName = e.rg
                /\ sbGetCalls[1].NamespaceName = e.ns
                /\ sbGetCalls[1].TopicName = e.topic

\* the topic_id names namespace ns-a, namespace_name says ns-b, and every
\* discrete field differs from the topic_id's
C2_Witness ==
    /\ sbResult = "ok"
    /\ ~fivePointOh
    /\ sbConfig.topic_id =
          TopicPath(OtherSubscriptionId, NamePool[1], NamePool[1], NamePool[1])
    /\ sbConfig.resource_group_name = NamePool[2]
    /\ sbConfig.namespace_name = NamePool[2]
    /\ sbConfig.topic_name = NamePool[2]
    /\ sbGetCalls[1].NamespaceName = NamePool[1]

\* C9: with a malformed topic_id the read returns the parse error without
\* any client.Get call, without setting the ID and without writing a field.
C9_MalformedTopicIdStopsTheRead ==
    SbReturned /\ sbConfig.topic_id \in MalformedTopicIds =>
        /\ sbResult = "parse_error"
        /\ sbGetCalls = <<>>
        /\ sbData.id = <<>>
        /\ sbData.fields = <<>>

\* a topic_id whose subscription segment is empty, next to discrete fields
C9_Witness ==
    /\ sbResult = "parse_error"
    /\ sbConfig.topic_id = TopicPath(<<>>, NamePool[1], NamePool[1], NamePool[1])
    /\ sbConfig.resource_group_name = NamePool[2]
    /\ sbGetCalls = <<>>

-----------------------------------------------------------------------------
(* Properties of the Purview account resource                              *)

\* the canonical path of an account, written out
CanonicalAccountPath(sub, rg, name) ==
    <<"/">> \o kwSubscriptions \o <<"/">> \o sub
        \o <<"/">> \o kwResourceGroups \o <<"/">> \o rg
        \o <<"/">> \o kwProviders \o <<"/">> \o kwMicrosoftPurview
        \o <<"/">> \o kwAccounts \o <<"/">> \o name

CanonicalAccountPaths ==
    {[path |-> CanonicalAccountPath(sub, rg, name), sub |-> sub, rg |-> rg, name |-> name] :
        sub \in {ProviderSubscriptionId, OtherSubscriptionId},
        rg \in PvNames, name \in PvNames}

\* the stored ID, when canonical, parses into the very values it is written
\* from and formats back into itself
C10_StoredIdRoundTrips ==
    \A e \in CanonicalAccountPaths :
        e.path = pvData.id =>
            /\ AccountID(pvData.id).ok
            /\ AccountID(pvData.id).id = NewAccountID(e.sub, e.rg, e.name)
            /\ AccountIdID(AccountID(pvData.id).id) = pvData.id

ParsedIntoConfiguredNames ==
    /\ pvParsed'[1].ok
    /\ pvParsed'[1].id.ResourceGroup = pvConfig.resource_group_name
    /\ pvParsed'[1].id.Name = pvConfig.name

\* the Read at the end of CreateUpdate, and a Read or Delete that finds the ID
\* CreateUpdate stored, parse it into the configured resource group and name
C10_CreatedIdParsesBack ==
    /\ pvOp' \in {"create", "update"} /\ pvParsed' # <<>> => ParsedIntoConfiguredNames
    /\ pvIdOrigin = "create" /\ pvOp' \in {"read", "delete"} => ParsedIntoConfiguredNames

\* C10: a canonical path parses and formats back to itself, its values kept
\* in their letter case, and the ID that CreateUpdate stores with
\* d.SetId(id.ID()) is parsed by the Read and Delete that follow into the
\* resource group and account name it was built from.
C10_RoundTripLossless ==
    [](C10_StoredIdRoundTrips) /\ [][C10_CreatedIdParsesBack]_vars

\* an account whose names differ in letter case only was created and read back
C10_Witness ==
    /\ pvOp = "read"
    /\ pvIdOrigin = "create"
    /\ pvResult = "nil"
    /\ pvConfig.resource_group_name = PvNamePool[1]
    /\ pvConfig.name = PvNamePool[2]
    /\ pvData.id = CanonicalAccountPath(ProviderSubscriptionId, PvNamePool[1], PvNamePool[2])
    /\ pvParsed[1].id.Name = PvNamePool[2]
    /\ pvData.fields.name = PvNamePool[2]

CallsOf(op) == {i \in 1..Len(pvCalls) : pvCalls[i].op = op}

\* the create handler's log: the existence check comes first, CreateOrUpdate
\* is sent after it and only when it answered not-found, and the ID is set
\* only when CreateOrUpdate was accepted and the wait succeeded
C11_CreateOrder ==
    pvOp = "create" =>
        /\ Len(pvCalls) >= 1 /\ pvCalls[1].op = "Get"
        /\ \A i \in CallsOf("CreateOrUpdate") : i = 2 /\ pvCalls[1].answer = "not_found"
        /\ pvCalls[1].answer \in {"found", "error"} =>
              /\ CallsOf("CreateOrUpdate") = {}
              /\ pvResult = IF pvCalls[1].answer = "found" THEN "import_as_exists_error"
                            ELSE "presence_error"
        /\ pvData.id # <<>> =>
              /\ CallsOf("CreateOrUpdate") = {2}
              /\ pvCalls[2].answer = "completed"

CreateFailedBeforeRead ==
    pvResult \in {"presence_error", "import_as_exists_error", "create_error", "wait_error"}

\* C11 as stated: the order above, and every create that returns an error
\* leaves the ID unset.
C11_AnyFailingCreateLeavesIdUnset ==
    /\ C11_CreateOrder
    /\ pvOp = "create" /\ pvResult # "nil" => pvData.id = <<>>

\* C11 amended: the order above; a create that fails in the existence check,
\* in CreateOrUpdate or in the wait leaves the ID unset; a create that fails in
\* the Read it ends with (Get failing other than not-found, ListKeys failing)
\* returns its error with the ID set.
C11_FailingCreateBeforeReadLeavesIdUnset ==
    /\ C11_CreateOrder
    /\ pvOp = "create" /\ CreateFailedBeforeRead => pvData.id = <<>> /\ pvData.fields = <<>>
    /\ pvOp = "create" /\ pvResult \in {"retrieve_error", "keys_error"} =>
          pvData.id = AccountIdID(PvBuildId(pvConfig))

\* CreateOrUpdate was accepted and the wait failed
C11_Witness ==
    /\ pvOp = "create"
    /\ Len(pvCalls) = 2
    /\ pvCalls[1].answer = "not_found"
    /\ pvCalls[2].op = "CreateOrUpdate"
    /\ pvCalls[2].answer = "wait_error"
    /\ pvResult = "wait_error"
    /\ pvData.id = <<>>

-----------------------------------------------------------------------------
(* Properties of ServicePlanInfoForApp and ServicePlanInfoForAppSlot       *)

SpiCalled == spiOp \in {"ServicePlanInfoForApp", "ServicePlanInfoForAppSlot"}

\* C13: a call never ends in a nil dereference; with a nil error both
\* pointers are non-nil, osType points to "linux" when the plan's Kind
\* contains "linux" in any letter case and to "windows" otherwise, planSku
\* points to the SKU's name, or to "" when the plan has no SKU; with a
\* non-nil error both pointers are nil.
C13_PointersAgreeWithError ==
    SpiCalled =>
        /\ ~spiPanic
        /\ spiOut # <<>>
        /\ spiOut[1].err # <<>> => spiOut[1].osType = <<>> /\ spiOut[1].planSku = <<>>
        /\ spiOut[1].err = <<>> =>
              /\ spiOut[1].osType # <<>>
              /\ spiOut[1].planSku # <<>>
              /\ spiOut[1].osType[1] =
                    IF Contains(ToLower(spiPlan.Model[1].Kind[1]), osLinux)
                    THEN osLinux ELSE osWindows
              /\ spiOut[1].planSku =
                    IF spiPlan.Model[1].Sku = <<>> THEN << <<>> >>
                    ELSE spiPlan.Model[1].Sku[1].Name

=============================================================================
